---- MODULE Spec2Model ----
(***************************************************************************)
(* Chain Reaction Online: the cascade engine of ChainReaction.tsx          *)
(* (checkExplosion and the helpers it uses), the move handler              *)
(* handleCellClick, and the room synchronisation of supabase.ts            *)
(* (updateGameState, joinGameRoom, subscribeToGameRoom).                   *)
(***************************************************************************)
EXTENDS Integers, Sequences, FiniteSets, TLC

(* ------------------------------------------------------------------ *)
(* Bounds.  The component keeps boardSize in state (rows: 6, cols: 6)  *)
(* and every topology helper reads boardSize.rows / boardSize.cols;    *)
(* the model runs the same helpers on a smaller grid.                  *)
(* ------------------------------------------------------------------ *)
Rows == 2
Cols == 2
\* iterations of the while loop of checkExplosion after which a cascade
\* is taken not to return (FuelSuffices checks that no returning cascade
\* needs as many)
MaxSteps == 40
\* moves played in one game
MaxMoves == 8
\* longest worklist the any-order cascade still serves
MaxQueue == 4
\* moves the two clients of the room submit
MaxClicks == 3
\* fetches and notifications on their way to one client
MaxInFlight == 2
\* clicks on Reset Game whose updateGameState has not landed yet
MaxResets == 1

\* player: null
null == -1

\* const [players] = useState([{id: 0}, {id: 1}])
players == <<0, 1>>

Cells == (0 .. Rows - 1) \X (0 .. Cols - 1)

\* the cells the two clients of the room click: a corner, the cell next
\* to it and the cell diagonal to it (on the Rows x Cols grid above every
\* sequence of MaxClicks clicks is one of these up to a reflection)
ClickCells == {<<0, 0>>, <<0, 1>>, <<1, 1>>}

\* one cell of a fresh board: { count: 0, player: null }
EmptyCell == [count |-> 0, player |-> null]

\* Array(rows).fill(null).map(() => Array(cols).fill(null).map(...))
EmptyBoard == [cell \in Cells |-> EmptyCell]

(* ------------------------------------------------------------------ *)
(* Topology rules                                                      *)
(* ------------------------------------------------------------------ *)
\* const [boardSize] = useState({ rows: 6, cols: 6 })
boardSize == [rows |-> 6, cols |-> 6]

\* the size of the grid the games of the model are played on
modelSize == [rows |-> Rows, cols |-> Cols]

\* the four rules below read boardSize; here it is their first argument
isCornerOn(size, row, col) ==
  \/ (row = 0 /\ col = 0)
  \/ (row = 0 /\ col = size.cols - 1)
  \/ (row = size.rows - 1 /\ col = 0)
  \/ (row = size.rows - 1 /\ col = size.cols - 1)

isEdgeOn(size, row, col) ==
  \/ row = 0
  \/ col = 0
  \/ row = size.rows - 1
  \/ col = size.cols - 1

\* getCriticalMass without the rule for edges
getCriticalMassOnNoEdge(size, row, col) ==
  IF isCornerOn(size, row, col) THEN 2
  ELSE 4

getCriticalMassOn(size, row, col) ==
  IF isCornerOn(size, row, col) THEN 2
  ELSE IF isEdgeOn(size, row, col) THEN 3
  ELSE 4

\* the pushes happen in this order: up, down, left, right
getAdjacentCellsOn(size, row, col) ==
  (IF row > 0 THEN << <<row - 1, col>> >> ELSE <<>>)
  \o (IF row < size.rows - 1 THEN << <<row + 1, col>> >> ELSE <<>>)
  \o (IF col > 0 THEN << <<row, col - 1>> >> ELSE <<>>)
  \o (IF col < size.cols - 1 THEN << <<row, col + 1>> >> ELSE <<>>)

isCorner(row, col) == isCornerOn(modelSize, row, col)

isEdge(row, col) == isEdgeOn(modelSize, row, col)

getCriticalMass(row, col) == getCriticalMassOn(modelSize, row, col)

getAdjacentCells(row, col) == getAdjacentCellsOn(modelSize, row, col)

(* ------------------------------------------------------------------ *)
(* Cascade engine                                                      *)
(* ------------------------------------------------------------------ *)
\* forEachAdjacent pushing a neighbour only when its count exceeds the
\* critical mass (> for >=)
RECURSIVE forEachAdjacentStrict(_, _, _, _)
forEachAdjacentStrict(st, adjacent, n, player) ==
  IF n = 0 THEN st
  ELSE LET prev == forEachAdjacentStrict(st, adjacent, n - 1, player)
           adj  == adjacent[n]
           cnt  == prev.board[adj].count + 1
           b2   == [prev.board EXCEPT ![adj] = [count |-> cnt, player |-> player]]
       IN [board |-> b2,
           queue |-> IF cnt > getCriticalMass(adj[1], adj[2])
                     THEN Append(prev.queue, adj)
                     ELSE prev.queue]

\* forEachAdjacent that leaves the owner of a neighbour as it is (without
\* player = currentPlayer)
RECURSIVE forEachAdjacentNoOwner(_, _, _, _)
forEachAdjacentNoOwner(st, adjacent, n, player) ==
  IF n = 0 THEN st
  ELSE LET prev == forEachAdjacentNoOwner(st, adjacent, n - 1, player)
           adj  == adjacent[n]
           cnt  == prev.board[adj].count + 1
           b2   == [prev.board EXCEPT ![adj] = [count |-> cnt, player |-> @.player]]
       IN [board |-> b2,
           queue |-> IF cnt >= getCriticalMass(adj[1], adj[2])
                     THEN Append(prev.queue, adj)
                     ELSE prev.queue]

\* the body of adjacent.forEach, folded over the first n neighbours:
\* count++, player = currentPlayer, push when count >= critical mass.
\* st is [board, queue].
RECURSIVE forEachAdjacent(_, _, _, _)
forEachAdjacent(st, adjacent, n, player) ==
  IF n = 0 THEN st
  ELSE LET prev == forEachAdjacent(st, adjacent, n - 1, player)
           adj  == adjacent[n]
           cnt  == prev.board[adj].count + 1
           b2   == [prev.board EXCEPT ![adj] = [count |-> cnt, player |-> player]]
       IN [board |-> b2,
           queue |-> IF cnt >= getCriticalMass(adj[1], adj[2])
                     THEN Append(prev.queue, adj)
                     ELSE prev.queue]

\* explodeStep emptying the exploding cell (count = 0 for count -= criticalMass)
explodeStepReset(board, rest, current, player) ==
  LET criticalMass == getCriticalMass(current[1], current[2])
  IN IF board[current].count >= criticalMass
     THEN LET b1 == [board EXCEPT ![current] = [count |-> 0, player |-> null]]
              adjacent == getAdjacentCells(current[1], current[2])
          IN forEachAdjacent([board |-> b1, queue |-> rest],
                             adjacent, Len(adjacent), player)
     ELSE [board |-> board, queue |-> rest]

\* explodeStep exploding a cell only at exactly its critical mass
\* (=== for >=)
explodeStepExact(board, rest, current, player) ==
  LET criticalMass == getCriticalMass(current[1], current[2])
  IN IF board[current].count = criticalMass
     THEN LET b1 == [board EXCEPT ![current] = [count |-> 0, player |-> null]]
              adjacent == getAdjacentCells(current[1], current[2])
          IN forEachAdjacent([board |-> b1, queue |-> rest],
                             adjacent, Len(adjacent), player)
     ELSE [board |-> board, queue |-> rest]

\* explodeStep that leaves the owner on a cell it has emptied (without
\* if (count === 0) player = null)
explodeStepKeepOwner(board, rest, current, player) ==
  LET criticalMass == getCriticalMass(current[1], current[2])
  IN IF board[current].count >= criticalMass
     THEN LET cnt == board[current].count - criticalMass
              b1  == [board EXCEPT ![current] = [count |-> cnt, player |-> @.player]]
              adjacent == getAdjacentCells(current[1], current[2])
          IN forEachAdjacent([board |-> b1, queue |-> rest],
                             adjacent, Len(adjacent), player)
     ELSE [board |-> board, queue |-> rest]

\* explodeStep taking one atom from the exploding cell (-= 1 for
\* -= criticalMass)
explodeStepOne(board, rest, current, player) ==
  LET criticalMass == getCriticalMass(current[1], current[2])
  IN IF board[current].count >= criticalMass
     THEN LET cnt == board[current].count - 1
              b1  == [board EXCEPT ![current] =
                        [count  |-> cnt,
                         player |-> IF cnt = 0 THEN null ELSE @.player]]
              adjacent == getAdjacentCells(current[1], current[2])
          IN forEachAdjacent([board |-> b1, queue |-> rest],
                             adjacent, Len(adjacent), player)
     ELSE [board |-> board, queue |-> rest]

\* one iteration of the while loop, for the dequeued cell current and the
\* rest of the queue: explode when count >= criticalMass, else discard.
explodeStep(board, rest, current, player) ==
  LET criticalMass == getCriticalMass(current[1], current[2])
  IN IF board[current].count >= criticalMass
     THEN LET cnt == board[current].count - criticalMass
              b1  == [board EXCEPT ![current] =
                        [count  |-> cnt,
                         player |-> IF cnt = 0 THEN null ELSE @.player]]
              adjacent == getAdjacentCells(current[1], current[2])
          IN forEachAdjacent([board |-> b1, queue |-> rest],
                             adjacent, Len(adjacent), player)
     ELSE [board |-> board, queue |-> rest]

\* while (queue.length > 0) { current = queue.shift(); ... } with a bound
\* on the number of iterations; returned is FALSE when the bound ran out
RECURSIVE whileQueue(_, _, _, _)
whileQueue(board, queue, player, fuel) ==
  IF queue = <<>> THEN [board |-> board, returned |-> TRUE]
  ELSE IF fuel = 0 THEN [board |-> board, returned |-> FALSE]
  ELSE LET st == explodeStep(board, Tail(queue), Head(queue), player)
       IN whileQueue(st.board, st.queue, player, fuel - 1)

checkExplosion(board, row, col, player) ==
  whileQueue(board, << <<row, col>> >>, player, MaxSteps)

\* newBoard[row][col].count++; newBoard[row][col].player = currentPlayer
placeAtom(board, row, col, player) ==
  [board EXCEPT ![<<row, col>>] = [count |-> @.count + 1, player |-> player]]

(* ------------------------------------------------------------------ *)
(* Game-over evaluator                                                 *)
(* ------------------------------------------------------------------ *)
getActivePlayers(board) ==
  {board[cell].player :
     cell \in {x \in DOMAIN board : board[x].count > 0 /\ board[x].player # null}}

RECURSIVE sumCounts(_, _)
sumCounts(board, cells) ==
  IF cells = {} THEN 0
  ELSE LET cell == CHOOSE x \in cells : TRUE
       IN board[cell].count + sumCounts(board, cells \ {cell})

getTotalAtoms(board) == sumCounts(board, DOMAIN board)

\* newGameOver without the guard on the total
newGameOverNoGuard(board) ==
  Cardinality(getActivePlayers(board)) = 1

\* activePlayers.length === 1 && getTotalAtoms(newBoard) > 1
newGameOver(board) ==
  Cardinality(getActivePlayers(board)) = 1 /\ getTotalAtoms(board) > 1

\* newWinner taken from the end of the list of all players
\* (players[players.length - 1] for activePlayers[0])
newWinnerLast(board) ==
  IF newGameOver(board) THEN players[Len(players)] ELSE null

\* newGameOver ? activePlayers[0] : null
newWinner(board) ==
  IF newGameOver(board) THEN CHOOSE p \in getActivePlayers(board) : TRUE ELSE null

\* nextPlayer without the wrap-around
nextPlayerNoWrap(currentPlayer) == currentPlayer + 1

\* (currentPlayer + 1) % players.length
nextPlayer(currentPlayer) == (currentPlayer + 1) % Len(players)

\* the newState handleCellClick builds from the stabilised board
evaluate(board, currentPlayer) ==
  [board         |-> board,
   currentPlayer |-> nextPlayer(currentPlayer),
   gameOver      |-> newGameOver(board),
   winner        |-> newWinner(board)]

\* opponentCell that lets a single atom of the opponent through
opponentCellLoose(board, row, col, currentPlayer) ==
  board[<<row, col>>].count > 1 /\ board[<<row, col>>].player # currentPlayer

\* the second guard of handleCellClick
opponentCell(board, row, col, currentPlayer) ==
  board[<<row, col>>].count > 0 /\ board[<<row, col>>].player # currentPlayer

(* ------------------------------------------------------------------ *)
(* State                                                               *)
(* ------------------------------------------------------------------ *)
VARIABLES
  \* one game played move after move, the loop of checkExplosion unrolled
  gstate,     \* the GameState the next move starts from
  newBoard,   \* the deep copy handleCellClick mutates
  queue,      \* the worklist of checkExplosion
  pc,         \* "start" | "loop" (inside the while loop) | "done"
  mover,      \* currentPlayer captured by the running handler
  moveCell,   \* the clicked cell of the running / last move
  base,       \* the board the running / last move was clicked on
  moves,      \* moves played so far
  \* one room and its two clients
  room,       \* the game_rooms row
  cl,         \* per client: the component state
  initReqs,   \* per client: initial fetches of the room effect not yet served
  notifs,     \* per client: realtime notifications not yet handled
  resps,      \* per client: fetched rows on their way back to the client
  calls,      \* per client: handleCellClick frames awaiting updateGameState
  writeLog,   \* the players whose moves were written, in write order
  timers,     \* per client: rows whose deferred update (setTimeout) is set
  dels,       \* per client: DELETE notifications not yet handled
  deleted,    \* the row of the room has been deleted
  joins,      \* per user: the handleJoinRoom call of that user
  resetCalls, \* per client: Reset Game clicks awaiting updateGameState
  \* the topology rules on their own
  probe       \* a grid size, a cell of it, and what the rules return for it

cascadeVars == <<gstate, newBoard, queue, pc, mover, moveCell, base, moves, probe>>

lifeVars == <<timers, dels, deleted, joins, resetCalls>>

roomVars == <<room, cl, initReqs, notifs, resps, calls, writeLog,
              timers, dels, deleted, joins, resetCalls>>

vars == <<gstate, newBoard, queue, pc, mover, moveCell, base, moves,
          room, cl, initReqs, notifs, resps, calls, writeLog,
          timers, dels, deleted, joins, resetCalls, probe>>

\* createGameRoom's initialState
initialState ==
  [board |-> EmptyBoard, currentPlayer |-> 0, gameOver |-> FALSE, winner |-> null]

(* ------------------------------------------------------------------ *)
(* The room and its two clients                                        *)
(* ------------------------------------------------------------------ *)
Clients == {0, 1}

\* user ids: client c is signed in as user c; subscribed is the
\* isSubscribed flag of the client's running room effect
userOf(c) == c

\* the row createGameRoom inserts for user 0
createdRoom ==
  [player1_id    |-> userOf(0),
   player2_id    |-> null,
   current_state |-> initialState,
   game_over     |-> FALSE,
   winner        |-> null,
   status        |-> "waiting"]

\* useState<string | null>(null) and setError(null): no message is shown
noError == ""

\* the component state before any room (the useState initial values)
initialClient ==
  [roomId        |-> FALSE,
   board         |-> <<>>,
   currentPlayer |-> 0,
   gameOver      |-> FALSE,
   winner        |-> null,
   playerNumber  |-> null,
   isWaiting     |-> FALSE,
   error         |-> noError,
   subscribed    |-> FALSE,
   looping       |-> FALSE]

\* the signed-in users: the creator, the user of client 1, and a third
\* user, of whose client only the call of handleJoinRoom is followed
Users == {0, 1, 2}

\* no call of handleJoinRoom under way; read holds the current_state
\* joinGameRoom has fetched, once it has
idleJoin == [pc |-> "idle", result |-> "none", read |-> <<>>]

\* the two fetches the room effect starts: fetchCurrentState() of the
\* component and the first fetch inside subscribeToGameRoom
effectFetches == {"fetchCurrentState", "subscribeInit"}

\* client 0 has run handleCreateRoom (setRoomId, setPlayerNumber(0),
\* setIsWaiting(true)) and its room effect has started; client 1 is signed
\* in and has no room yet
InitRoom ==
  /\ room = createdRoom
  /\ cl = [c \in Clients |->
             IF c = 0
             THEN [initialClient EXCEPT !.roomId = TRUE, !.playerNumber = 0,
                                        !.isWaiting = TRUE, !.subscribed = TRUE]
             ELSE initialClient]
  /\ initReqs = [c \in Clients |-> IF c = 0 THEN effectFetches ELSE {}]
  /\ notifs = [c \in Clients |-> 0]
  /\ resps = [c \in Clients |-> {}]
  /\ calls = [c \in Clients |-> <<>>]
  /\ writeLog = <<>>
  /\ timers = [c \in Clients |-> <<>>]
  /\ dels = [c \in Clients |-> 0]
  /\ deleted = FALSE
  /\ joins = [u \in Users |-> idleJoin]
  /\ resetCalls = [c \in Clients |-> 0]

\* the answer to a fetch of a row that does not exist: { data: null, error }
fetchError == [error |-> TRUE]

\* the five setters both the initial fetch and the deferred update run
applyRoom(client, gameRoom) ==
  [client EXCEPT !.board         = gameRoom.current_state.board,
                 !.currentPlayer = gameRoom.current_state.currentPlayer,
                 !.gameOver      = gameRoom.current_state.gameOver,
                 !.winner        = gameRoom.current_state.winner,
                 !.isWaiting     = (gameRoom.status = "waiting")]

\* fetches and notifications of client c that have not reached it yet
inFlight(c) ==
  Cardinality(initReqs[c]) + notifs[c] + dels[c] + Cardinality(resps[c])
  + Len(timers[c])

\* a write is let through while every subscribed client has fewer than
\* MaxInFlight of them
roomFree == \A c \in Clients : cl[c].subscribed => inFlight(c) < MaxInFlight

\* a change of the row is announced to every client whose channel is open
announce ==
  [c \in Clients |-> IF cl[c].subscribed THEN notifs[c] + 1 ELSE notifs[c]]

(* ------------------------------------------------------------------ *)
(* The cascade, one loop iteration per step                            *)
(* ------------------------------------------------------------------ *)
\* what getCriticalMass and getAdjacentCells return for a cell of a grid
measure(size, row, col) ==
  [size |-> size, row |-> row, col |-> col,
   criticalMass |-> getCriticalMassOn(size, row, col),
   adjacent |-> getAdjacentCellsOn(size, row, col)]

InitCascade ==
  /\ probe = measure(boardSize, 0, 0)
  /\ gstate = initialState
  /\ newBoard = EmptyBoard
  /\ queue = <<>>
  /\ pc = "start"
  /\ mover = 0
  /\ moveCell = <<0, 0>>
  /\ base = EmptyBoard
  /\ moves = 0
  /\ InitRoom

\* handleCellClick up to the call of checkExplosion: both guards, the deep
\* copy, the increment, and the queue seeded with the clicked cell
StartMove(row, col) ==
  /\ pc \in {"start", "done"}
  /\ ~gstate.gameOver
  /\ ~opponentCell(gstate.board, row, col, gstate.currentPlayer)
  /\ newBoard' = placeAtom(gstate.board, row, col, gstate.currentPlayer)
  /\ queue' = << <<row, col>> >>
  /\ mover' = gstate.currentPlayer
  /\ moveCell' = <<row, col>>
  /\ base' = gstate.board
  /\ moves < MaxMoves
  /\ moves' = moves + 1
  /\ pc' = "loop"
  /\ UNCHANGED <<gstate, probe, roomVars>>

\* one iteration of while (queue.length > 0), FIFO: queue.shift()
LoopStep ==
  /\ pc = "loop"
  /\ queue # <<>>
  /\ LET st == explodeStep(newBoard, Tail(queue), Head(queue), mover)
     IN /\ newBoard' = st.board
        /\ queue' = st.queue
  /\ UNCHANGED <<gstate, pc, mover, moveCell, base, moves, probe, roomVars>>

\* the loop exits; handleCellClick evaluates the board (lines 340-351)
Return ==
  /\ pc = "loop"
  /\ queue = <<>>
  /\ gstate' = evaluate(newBoard, mover)
  /\ pc' = "done"
  /\ UNCHANGED <<newBoard, queue, mover, moveCell, base, moves, probe, roomVars>>

NextCascade ==
  \/ \E cell \in Cells : StartMove(cell[1], cell[2])
  \/ LoopStep
  \/ Return

SpecCascade == InitCascade /\ [][NextCascade]_vars

\* the loop runs to completion once invoked: it is never suspended
FairCascade == SpecCascade /\ WF_vars(LoopStep) /\ WF_vars(Return)

(* ------------------------------------------------------------------ *)
(* The same cascade with the worklist served in any order              *)
(* ------------------------------------------------------------------ *)
\* the queue without its i-th entry
removeAt(q, i) == SubSeq(q, 1, i - 1) \o SubSeq(q, i + 1, Len(q))

\* the pending entries in row-major order: when any entry may be served
\* next, only which cells are pending, and how often, matters
RECURSIVE sortQueue(_)
sortQueue(q) ==
  IF q = <<>> THEN <<>>
  ELSE LET key(cell) == cell[1] * Cols + cell[2]
           i == CHOOSE j \in 1 .. Len(q) : \A k \in 1 .. Len(q) : key(q[j]) <= key(q[k])
       IN <<q[i]>> \o sortQueue(removeAt(q, i))

\* one loop iteration that serves any pending entry instead of the first
\* (FIFO, LIFO and every other discipline are among the choices); a
\* worklist longer than MaxQueue is not served any further
AnyStep(i) ==
  /\ pc = "loop"
  /\ i \in 1 .. Len(queue)
  /\ Len(queue) <= MaxQueue
  /\ LET st == explodeStep(newBoard, removeAt(queue, i), queue[i], mover)
     IN /\ newBoard' = st.board
        /\ queue' = sortQueue(st.queue)
  /\ UNCHANGED <<gstate, pc, mover, moveCell, base, moves, probe, roomVars>>

NextAnyOrder ==
  \/ \E cell \in Cells : StartMove(cell[1], cell[2])
  \/ \E i \in 1 .. MaxQueue : AnyStep(i)
  \/ Return

SpecAnyOrder == InitCascade /\ [][NextAnyOrder]_vars

\* checkExplosion as one call, on the move the cascade variables hold
atOnce ==
  checkExplosion(placeAtom(base, moveCell[1], moveCell[2], mover),
                 moveCell[1], moveCell[2], mover)

\* no cascade that returns needs more than MaxSteps iterations, and the
\* loop taken step by step computes what the single call computes
FuelSuffices == pc = "done" => atOnce.returned

\* the bound on the worklist cuts off no cascade that returns
QueueSuffices == atOnce.returned => Len(queue) < MaxQueue

(* ------------------------------------------------------------------ *)
(* Room operations                                                     *)
(* ------------------------------------------------------------------ *)
\* handleJoinRoom by client 1: checkGameRoom, then joinGameRoom (read the
\* row, refuse the creator and a room that is not waiting or has a second
\* player, write player2_id / status / currentPlayer), then setRoomId and
\* setPlayerNumber(1), whose room effect starts the two fetches
JoinRoom(c) ==
  /\ c = 1
  /\ ~cl[c].roomId
  /\ ~deleted
  /\ room.status = "waiting" /\ room.player2_id = null
  /\ room.player1_id # userOf(c)
  /\ roomFree
  /\ room' = [room EXCEPT !.player2_id = userOf(c),
                          !.status = "playing",
                          !.current_state = [@ EXCEPT !.currentPlayer = 0]]
  /\ notifs' = announce
  /\ cl' = [cl EXCEPT ![c] = [@ EXCEPT !.roomId = TRUE, !.playerNumber = 1,
                                      !.error = noError, !.subscribed = TRUE]]
  /\ initReqs' = [initReqs EXCEPT ![c] = effectFetches]
  /\ UNCHANGED <<resps, calls, writeLog, cascadeVars, lifeVars>>

\* the store answers one of the effect's initial fetches; the fetch of a
\* deleted row is answered with an error
ServeInitFetch(c, kind) ==
  /\ kind \in initReqs[c]
  /\ initReqs' = [initReqs EXCEPT ![c] = @ \ {kind}]
  /\ resps' = [resps EXCEPT ![c] = @ \cup {IF deleted THEN fetchError ELSE room}]
  /\ UNCHANGED <<room, cl, notifs, calls, writeLog, cascadeVars, lifeVars>>

\* the postgres_changes handler for an event that is not DELETE: it
\* fetches the row again; the answer holds the row as it is when read,
\* or the error when the row is deleted
RealtimeHandler(c) ==
  /\ notifs[c] > 0
  /\ notifs' = [notifs EXCEPT ![c] = @ - 1]
  /\ resps' = [resps EXCEPT ![c] = @ \cup {IF deleted THEN fetchError ELSE room}]
  /\ UNCHANGED <<room, cl, initReqs, calls, writeLog, cascadeVars, lifeVars>>

\* a fetched row reaches the client, in any order.  The answer to
\* fetchCurrentState runs the five setters at once.  The answer to either
\* fetch of subscribeToGameRoom goes to the callback, which defers the same
\* five setters with setTimeout(.., 0); such timers run in the order they
\* were set and nothing is read in between, so callback and deferred update
\* are taken as one step.  Every path checks isSubscribed before the
\* setters, and an error answer is dropped.
FetchResponse(c) ==
  /\ ~cl[c].looping
  /\ \E gameRoom \in resps[c] :
       /\ resps' = [resps EXCEPT ![c] = @ \ {gameRoom}]
       /\ cl' = IF cl[c].subscribed /\ gameRoom # fetchError
                THEN [cl EXCEPT ![c] = applyRoom(@, gameRoom)]
                ELSE cl
  /\ UNCHANGED <<room, initReqs, notifs, calls, writeLog, cascadeVars, lifeVars>>

\* handleCellClick that shows the move at once: the four setters run with
\* newState before updateGameState is awaited
HandleCellClickOptimistic(c, row, col) ==
  LET me == cl[c]
  IN /\ me.roomId /\ ~me.isWaiting /\ ~me.looping
     /\ <<row, col>> \in DOMAIN me.board
     /\ IF me.gameOver \/ me.playerNumber # me.currentPlayer \/ me.isWaiting
        THEN UNCHANGED <<cl, calls>>
        ELSE IF opponentCell(me.board, row, col, me.currentPlayer)
        THEN UNCHANGED <<cl, calls>>
        ELSE LET res == checkExplosion(placeAtom(me.board, row, col, me.currentPlayer),
                                       row, col, me.currentPlayer)
                 newState == evaluate(res.board, me.currentPlayer)
             IN /\ Len(writeLog) + Len(calls[0]) + Len(calls[1]) < MaxClicks
                /\ IF res.returned
                   THEN /\ calls' = [calls EXCEPT ![c] =
                              Append(@, [row |-> row, col |-> col,
                                         currentPlayer |-> me.currentPlayer,
                                         newState |-> newState,
                                         currentRoom |-> <<>>])]
                        /\ cl' = [cl EXCEPT ![c] =
                              [@ EXCEPT !.board         = newState.board,
                                        !.currentPlayer = newState.currentPlayer,
                                        !.gameOver      = newState.gameOver,
                                        !.winner        = newState.winner]]
                   ELSE /\ cl' = [cl EXCEPT ![c] = [@ EXCEPT !.looping = TRUE]]
                        /\ UNCHANGED calls
     /\ UNCHANGED <<room, initReqs, notifs, resps, writeLog, cascadeVars, lifeVars>>

\* handleCellClick(row, col) on a rendered cell (the grid is rendered only
\* while !isWaiting, one cell per entry of board), up to the await of
\* updateGameState; a cascade that does not return leaves the client inside
\* the while loop
HandleCellClick(c, row, col) ==
  LET me == cl[c]
  IN /\ me.roomId /\ ~me.isWaiting /\ ~me.looping
     /\ <<row, col>> \in DOMAIN me.board
     /\ IF me.gameOver \/ me.playerNumber # me.currentPlayer \/ me.isWaiting
        THEN UNCHANGED <<cl, calls>>
        ELSE IF opponentCell(me.board, row, col, me.currentPlayer)
        THEN UNCHANGED <<cl, calls>>
        ELSE LET res == checkExplosion(placeAtom(me.board, row, col, me.currentPlayer),
                                       row, col, me.currentPlayer)
             IN /\ Len(writeLog) + Len(calls[0]) + Len(calls[1]) < MaxClicks
                /\ IF res.returned
                   THEN /\ calls' = [calls EXCEPT ![c] =
                              Append(@, [row |-> row, col |-> col,
                                         currentPlayer |-> me.currentPlayer,
                                         newState |-> evaluate(res.board, me.currentPlayer),
                                         currentRoom |-> <<>>])]
                        /\ UNCHANGED cl
                   ELSE /\ cl' = [cl EXCEPT ![c] = [@ EXCEPT !.looping = TRUE]]
                        /\ UNCHANGED calls
     /\ UNCHANGED <<room, initReqs, notifs, resps, writeLog, cascadeVars, lifeVars>>

\* { ...currentRoom.current_state, ...newState }
mergeState(currentState, newState) ==
  [f \in DOMAIN currentState \cup DOMAIN newState |->
     IF f \in DOMAIN newState THEN newState[f] ELSE currentState[f]]

\* the update of updateGameState that leaves the status column alone
updatedRoomKeepStatus(currentRoom, newState) ==
  [currentRoom EXCEPT !.current_state = mergeState(@, newState),
                      !.game_over = newState.gameOver,
                      !.winner = newState.winner]

\* the row after the update of updateGameState, for the row it fetched
updatedRoom(currentRoom, newState) ==
  [currentRoom EXCEPT !.current_state = mergeState(@, newState),
                      !.game_over = newState.gameOver,
                      !.winner = newState.winner,
                      !.status = IF newState.gameOver THEN "finished" ELSE "playing"]

\* updateGameState of the i-th waiting handleCellClick frame of client c:
\* the row is fetched, and updated with the merged current_state, the
\* mirror fields and the status; calls in flight overtake each other
UpdateGameState(c, i) ==
  /\ i \in 1 .. Len(calls[c])
  /\ ~deleted
  /\ roomFree
  /\ room' = updatedRoom(room, calls[c][i].newState)
  /\ notifs' = announce
  /\ calls' = [calls EXCEPT ![c] = removeAt(@, i)]
  /\ writeLog' = Append(writeLog, calls[c][i].currentPlayer)
  /\ UNCHANGED <<cl, initReqs, resps, cascadeVars, lifeVars>>

\* an update that stores the fetched record whole, player columns included
writtenRoomWhole(row, currentRoom, newState) ==
  updatedRoom(currentRoom, newState)

\* .update({ current_state, game_over, winner, status }).eq("id", roomId)
\* on the stored row: these four columns are set, current_state merged
\* from the row fetched earlier, and every other column is left as stored
writtenRoom(row, currentRoom, newState) ==
  [row EXCEPT !.current_state = mergeState(currentRoom.current_state, newState),
              !.game_over = newState.gameOver,
              !.winner = newState.winner,
              !.status = IF newState.gameOver THEN "finished" ELSE "playing"]

\* updateGameState returns false (no user, the fetch or the update
\* fails): handleCellClick logs "Failed to update game state" and ends
UpdateGameStateFails(c, i) ==
  /\ i \in 1 .. Len(calls[c])
  /\ calls' = [calls EXCEPT ![c] = removeAt(@, i)]
  /\ UNCHANGED <<room, cl, initReqs, notifs, resps, writeLog, cascadeVars, lifeVars>>

\* the newState the Reset Game button builds
resetState ==
  [board |-> EmptyBoard, currentPlayer |-> 0, gameOver |-> FALSE, winner |-> null]

\* a click on Reset Game, up to the await of updateGameState; the button
\* is rendered while !isWaiting and disabled unless gameOver && winner !== null
ResetGame(c) ==
  /\ cl[c].roomId /\ ~cl[c].isWaiting /\ ~cl[c].looping
  /\ cl[c].gameOver /\ cl[c].winner # null
  /\ resetCalls[0] + resetCalls[1] < MaxResets
  /\ resetCalls' = [resetCalls EXCEPT ![c] = @ + 1]
  /\ UNCHANGED <<room, cl, initReqs, notifs, resps, calls, writeLog,
                 timers, dels, deleted, joins, cascadeVars>>

\* updateGameState of a waiting Reset Game click
ResetWrite(c) ==
  /\ resetCalls[c] > 0
  /\ ~deleted
  /\ roomFree
  /\ room' = updatedRoom(room, resetState)
  /\ notifs' = announce
  /\ resetCalls' = [resetCalls EXCEPT ![c] = @ - 1]
  /\ UNCHANGED <<cl, initReqs, resps, calls, writeLog,
                 timers, dels, deleted, joins, cascadeVars>>

\* updateGameState of a Reset Game click returns false: it is logged
ResetFails(c) ==
  /\ resetCalls[c] > 0
  /\ resetCalls' = [resetCalls EXCEPT ![c] = @ - 1]
  /\ UNCHANGED <<room, cl, initReqs, notifs, resps, calls, writeLog,
                 timers, dels, deleted, joins, cascadeVars>>

(* ------------------------------------------------------------------ *)
(* handleJoinRoom taken apart: checkGameRoom, then the read and the    *)
(* write of joinGameRoom                                               *)
(* ------------------------------------------------------------------ *)
\* what handleJoinRoom ends with when it does not join: setError(message)
joinFailed(u, message) ==
  /\ joins' = [joins EXCEPT ![u] = [pc |-> "done", result |-> message, read |-> <<>>]]
  /\ cl' = IF u \in Clients
           THEN [cl EXCEPT ![u] = [@ EXCEPT !.error = message]]
           ELSE cl

\* handleJoinRoom of user u up to the answer of checkGameRoom (the join
\* form is shown while !roomId): exists, and canJoin = waiting with no
\* second player
CheckGameRoom(u) ==
  /\ joins[u].pc = "idle" \/ (joins[u].pc = "done" /\ joins[u].result # "joined")
  /\ u \in Clients => (u # 0 /\ ~cl[u].roomId)
  /\ IF deleted
     THEN joinFailed(u, "Game room does not exist")
     ELSE IF ~(room.status = "waiting" /\ room.player2_id = null)
     THEN joinFailed(u, "Cannot join this game room")
     ELSE /\ joins' = [joins EXCEPT ![u] = [pc |-> "checked", result |-> "none",
                                            read |-> <<>>]]
          /\ cl' = IF u \in Clients
                   THEN [cl EXCEPT ![u] = [@ EXCEPT !.error = noError]]
                   ELSE cl
  /\ UNCHANGED <<room, initReqs, notifs, resps, calls, writeLog,
                 timers, dels, deleted, resetCalls, cascadeVars>>

\* joinGameRoom up to its update: the row is fetched; an error, the
\* creator's own room and a room that is not waiting or has a second
\* player return false ("Failed to join game room")
JoinRead(u) ==
  /\ joins[u].pc = "checked"
  /\ IF \/ deleted
        \/ room.player1_id = u
        \/ room.status # "waiting" \/ room.player2_id # null
     THEN joinFailed(u, "Failed to join game room")
     ELSE /\ joins' = [joins EXCEPT ![u] = [pc |-> "read", result |-> "none",
                                            read |-> <<room.current_state>>]]
          /\ UNCHANGED cl
  /\ UNCHANGED <<room, initReqs, notifs, resps, calls, writeLog,
                 timers, dels, deleted, resetCalls, cascadeVars>>

\* the update of joinGameRoom (player2_id, status, and the current_state
\* that was read with currentPlayer 0) and its return of true; for the
\* user of client 1 then setRoomId and setPlayerNumber(1), whose room
\* effect starts the two fetches
JoinWrite(u) ==
  /\ joins[u].pc = "read"
  /\ roomFree
  /\ room' = [room EXCEPT !.player2_id = u,
                          !.status = "playing",
                          !.current_state =
                             [joins[u].read[1] EXCEPT !.currentPlayer = 0]]
  /\ notifs' = announce
  /\ joins' = [joins EXCEPT ![u] = [pc |-> "done", result |-> "joined", read |-> <<>>]]
  /\ cl' = IF u \in Clients
           THEN [cl EXCEPT ![u] = [@ EXCEPT !.roomId = TRUE, !.playerNumber = 1,
                                            !.subscribed = TRUE]]
           ELSE cl
  /\ initReqs' = IF u \in Clients
                 THEN [initReqs EXCEPT ![u] = effectFetches]
                 ELSE initReqs
  /\ UNCHANGED <<resps, calls, writeLog, timers, dels, deleted, resetCalls,
                 cascadeVars>>

\* nothing is under way: no fetch, no notification, no deferred update, no
\* call of updateGameState
quiescent ==
  \A c \in Clients :
    /\ initReqs[c] = {} /\ notifs[c] = 0 /\ resps[c] = {} /\ calls[c] = <<>>
    /\ timers[c] = <<>> /\ dels[c] = 0 /\ resetCalls[c] = 0

\* a click of a user who waits until nothing is under way
CalmClick(c, row, col) ==
  /\ quiescent
  /\ HandleCellClick(c, row, col)

NextJoin ==
  \/ \E u \in Users : CheckGameRoom(u)
  \/ \E u \in Users : JoinRead(u)
  \/ \E u \in Users : JoinWrite(u)
  \/ \E c \in Clients : \E kind \in effectFetches : ServeInitFetch(c, kind)
  \/ \E c \in Clients : RealtimeHandler(c)
  \/ \E c \in Clients : FetchResponse(c)
  \/ \E c \in Clients : \E cell \in ClickCells : CalmClick(c, cell[1], cell[2])
  \/ \E c \in Clients : \E i \in 1 .. MaxClicks : UpdateGameState(c, i)
  \/ \E c \in Clients : ResetGame(c)
  \/ \E c \in Clients : ResetWrite(c)
  \/ \E c \in Clients : ResetFails(c)

\* the room joined by calls of handleJoinRoom that interleave, and played
\* and reset by two clients that move only when nothing is under way
SpecJoin == InitCascade /\ [][NextJoin]_vars

(* ------------------------------------------------------------------ *)
(* The topology rules, cell by cell                                    *)
(* ------------------------------------------------------------------ *)
\* the grids the rules are tried on, up to the 6 x 6 of boardSize
Sizes == [rows : 2 .. boardSize.rows, cols : 2 .. boardSize.cols]

\* getCriticalMass(row, col) and getAdjacentCells(row, col) called for a
\* cell of a grid
Measure(size, row, col) ==
  /\ row \in 0 .. size.rows - 1
  /\ col \in 0 .. size.cols - 1
  /\ probe' = measure(size, row, col)
  /\ UNCHANGED <<gstate, newBoard, queue, pc, mover, moveCell, base, moves, roomVars>>

NextTopology ==
  \E size \in Sizes : \E row, col \in 0 .. boardSize.rows - 1 : Measure(size, row, col)

SpecTopology == InitCascade /\ [][NextTopology]_vars

(* ------------------------------------------------------------------ *)
(* updateGameState taken apart: the re-fetch of the row, then the      *)
(* update                                                              *)
(* ------------------------------------------------------------------ *)
\* updateGameState of the i-th waiting frame of client c up to the answer
\* of .select("*").eq("id", roomId).single(): currentRoom is kept
UpdateRead(c, i) ==
  /\ i \in 1 .. Len(calls[c])
  /\ calls[c][i].currentRoom = <<>>
  /\ ~deleted
  /\ calls' = [calls EXCEPT ![c][i].currentRoom = <<room>>]
  /\ UNCHANGED <<room, cl, initReqs, notifs, resps, writeLog, cascadeVars, lifeVars>>

\* the update of updateGameState for the row fetched by UpdateRead,
\* whatever was written to the row in between
UpdateWrite(c, i) ==
  /\ i \in 1 .. Len(calls[c])
  /\ calls[c][i].currentRoom # <<>>
  /\ ~deleted
  /\ roomFree
  /\ room' = writtenRoom(room, calls[c][i].currentRoom[1], calls[c][i].newState)
  /\ notifs' = announce
  /\ calls' = [calls EXCEPT ![c] = removeAt(@, i)]
  /\ writeLog' = Append(writeLog, calls[c][i].currentPlayer)
  /\ UNCHANGED <<cl, initReqs, resps, cascadeVars, lifeVars>>

NextWrite ==
  \/ \E u \in Users : CheckGameRoom(u)
  \/ \E u \in Users : JoinRead(u)
  \/ \E u \in Users : JoinWrite(u)
  \/ \E c \in Clients : \E kind \in effectFetches : ServeInitFetch(c, kind)
  \/ \E c \in Clients : RealtimeHandler(c)
  \/ \E c \in Clients : FetchResponse(c)
  \/ \E c \in Clients : \E cell \in ClickCells : CalmClick(c, cell[1], cell[2])
  \/ \E c \in Clients : \E i \in 1 .. MaxClicks : UpdateRead(c, i)
  \/ \E c \in Clients : \E i \in 1 .. MaxClicks : UpdateWrite(c, i)
  \/ \E c \in Clients : \E i \in 1 .. MaxClicks : UpdateGameStateFails(c, i)
  \/ \E c \in Clients : ResetGame(c)
  \/ \E c \in Clients : ResetWrite(c)
  \/ \E c \in Clients : ResetFails(c)

\* the room joined, played and reset as in SpecJoin, with the re-fetch and
\* the update of every move write as two steps, and writes that fail
SpecWrite == InitCascade /\ [][NextWrite]_vars

(* ------------------------------------------------------------------ *)
(* Leaving the room, deferred updates and deletion                     *)
(* ------------------------------------------------------------------ *)
\* the callback handed to subscribeToGameRoom, for a row fetched by the
\* subscription: nothing when the effect is cleaned up or the fetch
\* failed, else the deferred update is set with setTimeout(.., 0)
Callback(c) ==
  /\ ~cl[c].looping
  /\ \E gameRoom \in resps[c] :
       /\ resps' = [resps EXCEPT ![c] = @ \ {gameRoom}]
       /\ timers' = IF cl[c].subscribed /\ gameRoom # fetchError
                    THEN [timers EXCEPT ![c] = Append(@, gameRoom)]
                    ELSE timers
  /\ UNCHANGED <<room, cl, initReqs, notifs, calls, writeLog,
                 dels, deleted, joins, resetCalls, cascadeVars>>

\* the deferred update running its setters although the effect is
\* cleaned up (without if (!isSubscribed) return)
TimerFiresUnchecked(c) ==
  /\ ~cl[c].looping
  /\ timers[c] # <<>>
  /\ timers' = [timers EXCEPT ![c] = Tail(@)]
  /\ cl' = [cl EXCEPT ![c] = applyRoom(@, Head(timers[c]))]
  /\ UNCHANGED <<room, initReqs, notifs, resps, calls, writeLog,
                 dels, deleted, joins, resetCalls, cascadeVars>>

\* the oldest deferred update runs: the five setters, unless the effect
\* has been cleaned up in between
TimerFires(c) ==
  /\ ~cl[c].looping
  /\ timers[c] # <<>>
  /\ timers' = [timers EXCEPT ![c] = Tail(@)]
  /\ cl' = IF cl[c].subscribed
           THEN [cl EXCEPT ![c] = applyRoom(@, Head(timers[c]))]
           ELSE cl
  /\ UNCHANGED <<room, initReqs, notifs, resps, calls, writeLog,
                 dels, deleted, joins, resetCalls, cascadeVars>>

\* the Leave Game button: setRoomId(null), setPlayerNumber(null),
\* setIsWaiting(false), resetGame() (handleSignOut runs the same setters)
LeaveGame(c) ==
  /\ cl[c].roomId /\ ~cl[c].looping
  /\ cl' = [cl EXCEPT ![c] = [@ EXCEPT !.roomId = FALSE,
                                      !.playerNumber = null,
                                      !.isWaiting = FALSE,
                                      !.board = EmptyBoard,
                                      !.currentPlayer = 0,
                                      !.gameOver = FALSE,
                                      !.winner = null]]
  /\ UNCHANGED <<room, initReqs, notifs, resps, calls, writeLog, cascadeVars, lifeVars>>

\* the cleanup of the room effect, run once roomId has changed:
\* isSubscribed = false and subscription.unsubscribe().  What is already
\* under way stays under way.
Cleanup(c) ==
  /\ ~cl[c].roomId /\ cl[c].subscribed
  /\ cl' = [cl EXCEPT ![c] = [@ EXCEPT !.subscribed = FALSE]]
  /\ UNCHANGED <<room, initReqs, notifs, resps, calls, writeLog, cascadeVars, lifeVars>>

\* the row of the room is deleted from the table (no code of the client
\* deletes it); every open channel is sent a DELETE event
DeleteRow ==
  /\ ~deleted
  /\ roomFree
  /\ deleted' = TRUE
  /\ dels' = [c \in Clients |-> IF cl[c].subscribed THEN dels[c] + 1 ELSE dels[c]]
  /\ UNCHANGED <<room, cl, initReqs, notifs, resps, calls, writeLog,
                 timers, joins, resetCalls, cascadeVars>>

\* the postgres_changes handler fetching the row for a DELETE event too
\* (without the check of payload.eventType)
RealtimeDeleteFetch(c) ==
  /\ dels[c] > 0
  /\ dels' = [dels EXCEPT ![c] = @ - 1]
  /\ resps' = [resps EXCEPT ![c] = @ \cup {IF deleted THEN fetchError ELSE room}]
  /\ UNCHANGED <<room, cl, initReqs, notifs, calls, writeLog,
                 timers, deleted, joins, resetCalls, cascadeVars>>

\* the postgres_changes handler for a DELETE event: it returns at once
RealtimeDelete(c) ==
  /\ dels[c] > 0
  /\ dels' = [dels EXCEPT ![c] = @ - 1]
  /\ UNCHANGED <<room, cl, initReqs, notifs, resps, calls, writeLog,
                 timers, deleted, joins, resetCalls, cascadeVars>>

NextCancel ==
  \/ \E c \in Clients : JoinRoom(c)
  \/ \E c \in Clients : \E kind \in effectFetches : ServeInitFetch(c, kind)
  \/ \E c \in Clients : RealtimeHandler(c)
  \/ \E c \in Clients : RealtimeDelete(c)
  \/ \E c \in Clients : FetchResponse(c)
  \/ \E c \in Clients : Callback(c)
  \/ \E c \in Clients : TimerFires(c)
  \/ \E c \in Clients : LeaveGame(c)
  \/ \E c \in Clients : Cleanup(c)
  \/ DeleteRow

\* the room with clients that leave, deferred updates taken apart from
\* their callbacks, and the deletion of the row; no moves are made
SpecCancel == InitCascade /\ [][NextCancel]_vars

Next ==
  \/ \E c \in Clients : JoinRoom(c)
  \/ \E c \in Clients : \E kind \in effectFetches : ServeInitFetch(c, kind)
  \/ \E c \in Clients : RealtimeHandler(c)
  \/ \E c \in Clients : FetchResponse(c)
  \/ \E c \in Clients : \E cell \in ClickCells : HandleCellClick(c, cell[1], cell[2])
  \/ \E c \in Clients : \E i \in 1 .. MaxClicks : UpdateGameState(c, i)
  \/ \E c \in Clients : \E i \in 1 .. MaxClicks : UpdateGameStateFails(c, i)
  \/ \E c \in Clients : ResetGame(c)
  \/ \E c \in Clients : ResetWrite(c)
  \/ \E c \in Clients : ResetFails(c)

Init == InitCascade

Spec == Init /\ [][Next]_vars

(* ------------------------------------------------------------------ *)
(* Properties of the cascade and of the evaluation                     *)
(* ------------------------------------------------------------------ *)
\* city-block distance of two cells
distance(a, b) ==
  (IF a[1] > b[1] THEN a[1] - b[1] ELSE b[1] - a[1])
  + (IF a[2] > b[2] THEN a[2] - b[2] ELSE b[2] - a[2])

\* C1: from the increment on, through every iteration of the loop and in
\* the board the move ends with, the counts sum to the sum of the board the
\* move was made on plus exactly 1
Conservation ==
  pc \in {"loop", "done"} =>
    /\ getTotalAtoms(newBoard) = getTotalAtoms(base) + 1
    /\ (pc = "done" => getTotalAtoms(gstate.board) = getTotalAtoms(base) + 1)

\* a finished move whose cascade changed a cell two steps from the click
ConservationWitness ==
  /\ pc = "done"
  /\ \E cell \in Cells :
       distance(cell, moveCell) >= 2 /\ gstate.board[cell].count # base[cell].count

\* C2: when checkExplosion has returned, every cell holds fewer atoms
\* than its critical mass
Stabilization ==
  pc = "done" =>
    \A cell \in Cells : gstate.board[cell].count < getCriticalMass(cell[1], cell[2])

\* a finished move in which the clicked cell exploded
StabilizationWitness ==
  /\ pc = "done"
  /\ gstate.board # placeAtom(base, moveCell[1], moveCell[2], mover)

\* C3: the worklist of every move drains: a cascade that has started
\* returns
Termination == (pc = "loop") ~> (pc = "done")

\* C8: the state a move produces has gameOver exactly when one player owns
\* every cell that holds atoms and the board holds more than one atom, and
\* winner is that player then and none otherwise
GameOverEvaluation ==
  pc = "done" =>
    LET owners == {gstate.board[cell].player :
                     cell \in {x \in Cells : gstate.board[x].count > 0}}
        soleOwner == Cardinality(owners) = 1 /\ getTotalAtoms(gstate.board) > 1
    IN /\ gstate.gameOver = soleOwner
       /\ gstate.winner = (IF soleOwner THEN CHOOSE p \in owners : TRUE ELSE null)
       /\ (base = EmptyBoard => ~gstate.gameOver)

\* a move that ended the game
GameOverEvaluationWitness == pc = "done" /\ gstate.gameOver /\ gstate.winner = mover

\* C9: a move that does not end the game hands the turn to
\* (current + 1) mod 2
TurnAdvance ==
  [][(pc = "loop" /\ pc' = "done" /\ ~gstate'.gameOver)
       => gstate'.currentPlayer = (gstate.currentPlayer + 1) % 2]_vars

\* the turn has gone round: player 1 moved and player 0 is to move again
TurnAdvanceWitness ==
  pc = "done" /\ ~gstate.gameOver /\ mover = 1 /\ gstate.currentPlayer = 0

NoDoubleMove ==
  \A i \in 1 .. Len(writeLog) - 1 : writeLog[i] # writeLog[i + 1]

\* C5: the board a move write leaves in the row is the board the row held
\* just before the write with that one move and its cascade applied
NoLostUpdate ==
  [][\A c \in Clients : \A i \in 1 .. Len(calls[c]) :
       UpdateGameState(c, i) =>
         LET call  == calls[c][i]
             moved == checkExplosion(
                        placeAtom(room.current_state.board, call.row, call.col,
                                  call.currentPlayer),
                        call.row, call.col, call.currentPlayer)
         IN moved.returned /\ room'.current_state.board = moved.board]_vars

\* C6: once every write has landed and every notification and fetched row
\* has been delivered, each client of the room shows the persisted board,
\* currentPlayer, gameOver and winner
Convergence ==
  quiescent =>
    \A c \in Clients :
      cl[c].roomId =>
        /\ cl[c].board = room.current_state.board
        /\ cl[c].currentPlayer = room.current_state.currentPlayer
        /\ cl[c].gameOver = room.current_state.gameOver
        /\ cl[c].winner = room.current_state.winner

\* the conditions under which a click of client c on cell is to be refused
rejects(c, cell) ==
  \/ cl[c].isWaiting
  \/ cl[c].gameOver
  \/ cl[c].playerNumber # cl[c].currentPlayer
  \/ (cl[c].board[cell].count > 0 /\ cl[c].board[cell].player # cl[c].playerNumber)

consistentCell(cell) == (cell.count = 0) <=> (cell.player = null)

\* C11: in the board every completed move and cascade leaves (the board
\* of the newState that is persisted), each cell has count 0 exactly when
\* it has no owner
CellConsistency ==
  \A cell \in Cells : consistentCell(gstate.board[cell])

\* a move has returned with a cell it emptied and a cell it filled
CellConsistencyWitness ==
  /\ pc = "done"
  /\ \E cell \in Cells : base[cell].count > 0 /\ gstate.board[cell].count = 0
  /\ \E cell \in Cells : base[cell].count = 0 /\ gstate.board[cell].count > 0

\* the first guard of handleCellClick lets client c through
passesValidation(c) ==
  /\ cl[c].roomId
  /\ ~cl[c].gameOver /\ ~cl[c].isWaiting
  /\ cl[c].playerNumber = cl[c].currentPlayer

\* C12: the two clients of the room never both hold a local snapshot that
\* lets them submit a move
TurnMutualExclusion ==
  ~(passesValidation(0) /\ passesValidation(1))

\* board, currentPlayer, gameOver, winner and the waiting flag of a client
visible(client) ==
  <<client.board, client.currentPlayer, client.gameOver, client.winner,
    client.isWaiting>>

\* C13: handling a DELETE notification starts no fetch, calls no callback
\* (no answer comes back, no deferred update is set) and leaves board,
\* currentPlayer, gameOver, winner and the waiting flag of the client
DeletionIgnored ==
  [][\A c \in Clients :
       RealtimeDelete(c) =>
         /\ resps'[c] = resps[c]
         /\ timers'[c] = timers[c]
         /\ visible(cl'[c]) = visible(cl[c])]_vars

\* a subscribed client that shows the room has handled the DELETE event
DeletionIgnoredWitness ==
  /\ deleted
  /\ \E c \in Clients :
       cl[c].subscribed /\ cl[c].roomId /\ dels[c] = 0 /\ cl[c].board # <<>>

\* C14: from the cleanup of a client's room effect on, nothing that
\* belongs to it (answer to an initial fetch, callback, deferred update)
\* changes board, currentPlayer, gameOver, winner or the waiting flag
Cancellation ==
  [][\A c \in Clients :
       (~cl[c].subscribed /\ ~cl'[c].subscribed) =>
         visible(cl'[c]) = visible(cl[c])]_vars

\* client 0 has left and is cleaned up while an answer to a fetch and a
\* deferred update of its subscription are still under way
CancellationWitness ==
  /\ ~cl[0].roomId /\ ~cl[0].subscribed
  /\ resps[0] # {} /\ timers[0] # <<>>

\* C15: the status of the row is "waiting" exactly while no second player
\* is bound, "playing" exactly while one is bound and current_state.gameOver
\* is false, and "finished" exactly while current_state.gameOver is true
DerivedStatus ==
  /\ (room.status = "waiting") <=> (room.player2_id = null)
  /\ (room.status = "playing") <=>
       (room.player2_id # null /\ ~room.current_state.gameOver)
  /\ (room.status = "finished") <=> room.current_state.gameOver

\* a finished game has been reset: three moves were written and the row
\* is back to "playing" with the empty board
DerivedStatusWitness ==
  /\ Len(writeLog) = 3
  /\ room.status = "playing"
  /\ room.current_state.board = EmptyBoard

\* C16: the columns game_over and winner of the row equal gameOver and
\* winner of its current_state
MirrorInSync ==
  /\ room.game_over = room.current_state.gameOver
  /\ room.winner = room.current_state.winner

\* the users whose call of joinGameRoom returned true
joined == {u \in Users : joins[u].result = "joined"}

\* C18: of the calls of joinGameRoom on the room at most one returns
\* true, the player2_id it has set stays, and the creator's never does
JoinExclusivity ==
  /\ Cardinality(joined) <= 1
  /\ joined # {} => room.player2_id \in joined
  /\ 0 \notin joined

\* C17: once current_state.gameOver of the row is true, no step changes
\* its board, gameOver, winner or status
FinishedTerminal ==
  [][room.current_state.gameOver =>
       /\ room'.current_state.board = room.current_state.board
       /\ room'.current_state.gameOver
       /\ room'.current_state.winner = room.current_state.winner
       /\ room'.status = room.status]_vars

\* C19: a click that is refused cannot be handled without setting the
\* client's error message, and a call of updateGameState that returns
\* false sets it too
ErrorSurfacing ==
  /\ [](\A c \in Clients : \A cell \in DOMAIN cl[c].board :
          (cl[c].roomId /\ ~cl[c].isWaiting /\ rejects(c, cell)) =>
            ~ENABLED (HandleCellClick(c, cell[1], cell[2]) /\ cl'[c].error = noError))
  /\ [][\A c \in Clients : \A i \in 1 .. Len(calls[c]) :
          UpdateGameStateFails(c, i) => cl'[c].error # noError]_vars

\* the move the cascade variables hold brings its cell to exactly the
\* critical mass while every neighbour of the cell is empty
singleExplosion ==
  /\ base[moveCell].count + 1 = getCriticalMass(moveCell[1], moveCell[2])
  /\ \A cell \in Cells : distance(cell, moveCell) = 1 => base[cell].count = 0

\* C20: such a move ends with its cell at count 0 and no owner, each
\* neighbour of the cell at count 1 owned by the mover, and every other
\* cell as it was
SingleExplosion ==
  (pc = "done" /\ singleExplosion) =>
    \A cell \in Cells :
      gstate.board[cell] =
        IF cell = moveCell THEN [count |-> 0, player |-> null]
        ELSE IF distance(cell, moveCell) = 1 THEN [count |-> 1, player |-> mover]
        ELSE base[cell]

\* player 0 has brought corner (0,0) to 2 next to two empty cells, with an
\* atom of the opponent elsewhere
SingleExplosionWitness ==
  /\ pc = "done" /\ singleExplosion
  /\ moveCell = <<0, 0>> /\ mover = 0
  /\ \E cell \in Cells : base[cell].count > 0 /\ base[cell].player = 1

\* the players bound to the room
bindings(r) == <<r.player1_id, r.player2_id>>

\* C21: a write of updateGameState, for a move or for Reset Game, leaves
\* player1_id and player2_id of the row as they are stored, also when a
\* joinGameRoom write landed between its re-fetch and its update; and no
\* step unbinds a second player once bound
BindingsPreserved ==
  [][/\ \A c \in Clients :
          \/ \E i \in 1 .. Len(calls[c]) : UpdateWrite(c, i)
          \/ ResetWrite(c)
          => bindings(room') = bindings(room)
     /\ room.player2_id # null => room'.player2_id # null]_vars

\* a move write is about to land whose re-fetch saw another second player
\* than the one bound now: a joinGameRoom write landed after the re-fetch
BindingsPreservedWitness ==
  \E c \in Clients : \E i \in 1 .. Len(calls[c]) :
    /\ calls[c][i].currentRoom # <<>>
    /\ calls[c][i].currentRoom[1].player2_id # null
    /\ calls[c][i].currentRoom[1].player2_id # room.player2_id
    /\ ENABLED UpdateWrite(c, i)

\* the cells of a grid next to (row, col): in bounds and one step away in
\* a row or a column
orthogonal(size, row, col) ==
  {cell \in (0 .. size.rows - 1) \X (0 .. size.cols - 1) :
     \/ cell[2] = col /\ (cell[1] = row - 1 \/ cell[1] = row + 1)
     \/ cell[1] = row /\ (cell[2] = col - 1 \/ cell[2] = col + 1)}

\* the number of the four sides of the grid a cell lies on
sides(size, row, col) ==
  (IF row = 0 THEN 1 ELSE 0) + (IF row = size.rows - 1 THEN 1 ELSE 0)
  + (IF col = 0 THEN 1 ELSE 0) + (IF col = size.cols - 1 THEN 1 ELSE 0)

\* C22: for every cell of the grid getCriticalMass equals the number of
\* cells getAdjacentCells returns, these are exactly the in-bounds
\* orthogonal neighbours, each once, and the number is 2 for corners, 3
\* for other boundary cells and 4 for interior cells
Topology ==
  /\ probe.criticalMass = Len(probe.adjacent)
  /\ {probe.adjacent[k] : k \in 1 .. Len(probe.adjacent)}
       = orthogonal(probe.size, probe.row, probe.col)
  /\ Cardinality(orthogonal(probe.size, probe.row, probe.col)) = Len(probe.adjacent)
  /\ probe.criticalMass = 4 - sides(probe.size, probe.row, probe.col)

\* a boundary cell of the 6 x 6 grid that is no corner has been measured
TopologyWitness ==
  /\ probe.size = boardSize
  /\ sides(probe.size, probe.row, probe.col) = 1
  /\ probe.criticalMass = 3

\* the dequeued cell is at or above its critical mass: this iteration of
\* the loop explodes it
explodes ==
  /\ pc = "loop" /\ queue # <<>>
  /\ newBoard[Head(queue)].count >= getCriticalMass(Head(queue)[1], Head(queue)[2])

\* C23: in a cascade started by a legal move on a stable board, whenever
\* a dequeued cell explodes, its count right after the subtraction of its
\* critical mass is below the critical mass
BelowThreshold ==
  [][(explodes /\ LoopStep) =>
       newBoard'[Head(queue)].count
         < getCriticalMass(Head(queue)[1], Head(queue)[2])]_vars

\* a cell is dequeued that gathered more than its critical mass while it
\* waited in the queue, with the board of the move full before the click
BelowThresholdWitness ==
  /\ explodes
  /\ newBoard[Head(queue)].count > getCriticalMass(Head(queue)[1], Head(queue)[2])
  /\ \A cell \in Cells : base[cell].count + 1 = getCriticalMass(cell[1], cell[2])

\* C24: when the newState a move builds has gameOver true, its winner is
\* the player who made the move, never the opponent
WinnerIsMover ==
  (pc = "done" /\ gstate.gameOver) => gstate.winner = mover

\* a move has ended the game by capturing every atom of the opponent
WinnerIsMoverWitness ==
  /\ pc = "done" /\ gstate.gameOver
  /\ \E cell \in Cells : base[cell].count > 0 /\ base[cell].player = nextPlayer(mover)
  /\ \A cell \in Cells : gstate.board[cell].player \in {null, mover}

\* the local snapshot of the game a client renders
snapshot(client) ==
  <<client.board, client.currentPlayer, client.gameOver, client.winner>>

\* C25: handleCellClick, whether its write succeeds or fails, leaves the
\* client's local board, currentPlayer, gameOver and winner alone; they
\* change only in a step that applies a fetched row (the answer of the
\* initial fetch or the update a notification defers) or in which the
\* client leaves
NoOptimisticUpdate ==
  [][\A c \in Clients :
       /\ (\/ \E cell \in Cells : HandleCellClick(c, cell[1], cell[2])
           \/ \E i \in 1 .. Len(calls[c]) :
                \/ UpdateRead(c, i)
                \/ UpdateWrite(c, i)
                \/ UpdateGameState(c, i)
                \/ UpdateGameStateFails(c, i))
          => snapshot(cl'[c]) = snapshot(cl[c])
       /\ snapshot(cl'[c]) # snapshot(cl[c])
          => (FetchResponse(c) \/ TimerFires(c) \/ LeaveGame(c))]_vars

\* the move of a client has been written and its notification has not
\* been handled yet: the row shows the move, the client still shows the
\* board it clicked on and its own turn
NoOptimisticUpdateWitness ==
  \E c \in Clients :
    /\ writeLog # <<>>
    /\ writeLog[Len(writeLog)] = cl[c].playerNumber
    /\ notifs[c] > 0 /\ resps[c] = {}
    /\ cl[c].board # room.current_state.board
    /\ cl[c].currentPlayer = cl[c].playerNumber
    /\ room.current_state.currentPlayer # cl[c].playerNumber

====
